---------------------------- MODULE Spec2Model ----------------------------
(***************************************************************************)
(* A model of zksvm-rs: the artifact locator (releases.rs, artifact_url),  *)
(* the release catalog lookups (releases.rs, Releases) and the             *)
(* concurrency-safe installer (install.rs).                                *)
(*                                                                         *)
(* Installer invocations are independent processes (or threads) that share *)
(* one data directory.  Every await point and every system call of         *)
(* install() is one action, so that other invocations interleave exactly   *)
(* where the operating system lets them.                                   *)
(***************************************************************************)
EXTENDS Integers, Sequences, FiniteSets, TLC

(***************************************************************************)
(* Bounds of the model.                                                    *)
(***************************************************************************)
\* number of concurrent install invocations
NProcs == 2
\* number of write(2) calls that write_all may need for one payload
BinLen == 2
\* number of calls (file system or network) that fail in one run
MaxFaults == 1
\* longest artifact name handed to artifact_url, in characters
MaxArtifactLen == 2

(***************************************************************************)
(* semver::Version: major.minor.patch with an optional pre-release tag.    *)
(* Precedence is that of semver: numeric fields first, and a pre-release   *)
(* of a version precedes the version itself.                               *)
(***************************************************************************)
Version(major, minor, patch) ==
  [major |-> major, minor |-> minor, patch |-> patch, pre |-> ""]

PreRelease(major, minor, patch) ==
  [major |-> major, minor |-> minor, patch |-> patch, pre |-> "rc"]

VersionLt(a, b) ==
  \/ a.major < b.major
  \/ a.major = b.major /\ a.minor < b.minor
  \/ a.major = b.major /\ a.minor = b.minor /\ a.patch < b.patch
  \/ a.major = b.major /\ a.minor = b.minor /\ a.patch = b.patch
       /\ a.pre # "" /\ b.pre = ""

VersionLe(a, b) == a = b \/ VersionLt(a, b)

VERSION_MAX == Version(1, 4, 1)

VERSION_MIN == Version(1, 3, 13)

(***************************************************************************)
(* Platforms and the URL tables of releases.rs.                            *)
(***************************************************************************)
DedicatedPlatforms ==
  {"LinuxAmd64", "LinuxAarch64", "MacOsAmd64", "MacOsAarch64", "WindowsAmd64"}

Platforms == DedicatedPlatforms \cup {"Unsupported"}

\* Display of a platform, as used in the fallback URL and in error values
PlatformName(platform) ==
  CASE platform = "LinuxAmd64"   -> "linux-amd64"
    [] platform = "LinuxAarch64" -> "linux-aarch64"
    [] platform = "MacOsAmd64"   -> "macosx-amd64"
    [] platform = "MacOsAarch64" -> "macosx-aarch64"
    [] platform = "WindowsAmd64" -> "windows-amd64"
    [] OTHER                     -> "Unsupported-platform"

ZKSOLC_RELEASES_URL ==
  "https://github.com/dutterbutter/zksolc-bin/tree/db/generate-list"

LINUX_AARCH64_URL_PREFIX ==
  "https://github.com/dutterbutter/zksolc-bin/raw/db/generate-list/linux-arm64"

MACOS_AARCH64_URL_PREFIX ==
  "https://github.com/dutterbutter/zksolc-bin/raw/db/generate-list/macosx-arm64"

MACOS_AMD64_URL_PREFIX ==
  "https://github.com/dutterbutter/zksolc-bin/raw/db/generate-list/macosx-amd64"

LINUX_AMD64_URL_PREFIX ==
  "https://github.com/dutterbutter/zksolc-bin/raw/db/generate-list/linux-amd64"

WINDOWS_AMD64_URL_PREFIX ==
  "https://github.com/dutterbutter/zksolc-bin/raw/db/generate-list/windows-amd64"

(***************************************************************************)
(* Strings that are built at run time are sequences of tokens: a base      *)
(* (one of the constants above) followed by single characters.             *)
(* Url::parse keeps the base (it is a well-formed https URL) and           *)
(* percent-encodes, in the path, the characters of the path encode set;    *)
(* of the characters of ArtifactChars that is the space.  It cannot fail   *)
(* on these inputs: the scheme and the host come from the base.            *)
(***************************************************************************)
ArtifactChars == {"z", "-", "7", " "}

PathEncode(c) == IF c = " " THEN "%20" ELSE c

\* format!("{base}/{artifact}")
FormatUrl(base, artifact) == <<base, "/">> \o artifact

\* format!("{base}/{platform}/{artifact}")
FormatPlatformUrl(base, platform, artifact) ==
  <<base, "/", PlatformName(platform), "/">> \o artifact

UrlParse(s) ==
  [i \in 1..Len(s) |-> IF i = 1 THEN s[i] ELSE PathEncode(s[i])]

\* Result<T, SvmError>: kind is "Ok" or the name of the SvmError variant
Ok(value) == [ok |-> TRUE, kind |-> "Ok", detail |-> value]

Err(kind, detail) == [ok |-> FALSE, kind |-> kind, detail |-> detail]

UnsupportedVersion(version, platform) ==
  Err("UnsupportedVersion", <<version, PlatformName(platform)>>)

\* A range test with the upper bound excluded.
InRangeUpperExclusive(version) ==
  VersionLe(VERSION_MIN, version) /\ VersionLt(version, VERSION_MAX)

\* A range test without the upper bound.
InRangeNoUpperBound(version) == VersionLe(VERSION_MIN, version)

\* *version >= VERSION_MIN && *version <= VERSION_MAX
InRange(version) ==
  VersionLe(VERSION_MIN, version) /\ VersionLe(version, VERSION_MAX)

\* A minimum gate that lets every version through.
BelowMinimumNever(version) == FALSE

\* *version < VERSION_MIN, the gate between the Linux and the other branches
BelowMinimum(version) == VersionLt(version, VERSION_MIN)

artifact_url(platform, version, artifact) ==
  IF platform = "LinuxAmd64"
  THEN IF InRange(version)
       THEN Ok(UrlParse(FormatUrl(LINUX_AMD64_URL_PREFIX, artifact)))
       ELSE UnsupportedVersion(version, platform)
  ELSE IF platform = "LinuxAarch64"
  THEN IF InRange(version)
       THEN Ok(UrlParse(FormatUrl(LINUX_AARCH64_URL_PREFIX, artifact)))
       ELSE UnsupportedVersion(version, platform)
  ELSE IF BelowMinimum(version)
  THEN UnsupportedVersion(version, platform)
  ELSE IF platform = "MacOsAarch64"
  THEN IF InRange(version)
       THEN Ok(UrlParse(FormatUrl(MACOS_AARCH64_URL_PREFIX, artifact)))
       ELSE UnsupportedVersion(version, platform)
  ELSE IF platform = "MacOsAmd64"
  THEN IF InRange(version)
       THEN Ok(UrlParse(FormatUrl(MACOS_AMD64_URL_PREFIX, artifact)))
       ELSE UnsupportedVersion(version, platform)
  ELSE IF platform = "WindowsAmd64"
  THEN IF InRange(version)
       THEN Ok(UrlParse(FormatUrl(WINDOWS_AMD64_URL_PREFIX, artifact)))
       ELSE UnsupportedVersion(version, platform)
  ELSE Ok(UrlParse(FormatPlatformUrl(ZKSOLC_RELEASES_URL, platform, artifact)))



(***************************************************************************)
(* The release catalog (releases.rs, Releases and BuildInfo).              *)
(***************************************************************************)
None == [some |-> FALSE]

Some(x) == [some |-> TRUE, value |-> x]

\* The payloads a download may deliver, as the chunks write_all writes.
GoodBytes == [i \in 1..BinLen |-> i]

OtherBytes == [i \in 1..BinLen |-> BinLen + i]

Payloads == {GoodBytes, OtherBytes}

\* SHA-256, idealised as collision free: the digest determines the bytes.
Sha256(bytes) == <<"sha256", bytes>>

VOld == Version(1, 3, 12)

V1 == Version(1, 3, 17)

V2 == Version(1, 4, 1)

InstallVersions == {VOld, V1, V2}

NoVersion == Version(0, 0, 0)

BuildInfo(version, sha256) == [version |-> version, sha256 |-> sha256]

\* The manifests the release server may publish (list.json).  In "A" every
\* version has an artifact and a checksum.  In "B" VOld has a checksum and
\* no artifact, V2 has an artifact and no checksum, and the checksum of V1
\* has been replaced (an older record for V1 follows the new one).
Manifests ==
  [A |-> [builds   |-> << BuildInfo(V1, Sha256(GoodBytes)),
                          BuildInfo(V2, Sha256(GoodBytes)),
                          BuildInfo(VOld, Sha256(GoodBytes)) >>,
          releases |-> (VOld :> <<"z">>) @@ (V1 :> <<"z", "7">>)
                         @@ (V2 :> <<"z", "-">>)],
   B |-> [builds   |-> << BuildInfo(VOld, Sha256(GoodBytes)),
                          BuildInfo(V1, Sha256(OtherBytes)),
                          BuildInfo(V1, Sha256(GoodBytes)) >>,
          releases |-> (V1 :> <<"z", "7">>) @@ (V2 :> <<"z", "-">>)]]

\* Releases::get_checksum: the first build record of version v
get_checksum(self, v) ==
  LET hits == {i \in 1..Len(self.builds) : self.builds[i].version = v}
  IN  IF hits = {} THEN None
      ELSE Some(self.builds[CHOOSE i \in hits : \A j \in hits : i <= j].sha256)

\* Releases::get_artifact, and releases.get(version) of install
get_artifact(self, version) ==
  IF version \in DOMAIN self.releases THEN Some(self.releases[version])
  ELSE None

\* A checksum test that accepts every payload.
ensure_checksum_skipped(binbytes, version, expected_checksum) == Ok(<<>>)

ensure_checksum(binbytes, version, expected_checksum) ==
  LET checksum == Sha256(binbytes)
  IN  IF checksum # expected_checksum
      THEN Err("ChecksumMismatch", <<version, expected_checksum, checksum>>)
      ELSE Ok(<<>>)

(***************************************************************************)
(* The data directory.                                                     *)
(***************************************************************************)
\* platform::platform(): the host's platform
platform == "LinuxAmd64"

\* A lock path that does not depend on the version.
lock_file_path_shared(version) == <<"data_dir", ".lock-zksolc-", V1>>

\* data_dir().join(format!(".lock-zksolc-{version}"))
lock_file_path(version) == <<"data_dir", ".lock-zksolc-", version>>

LockPaths == {lock_file_path(v) : v \in InstallVersions}

\* version_binary(version): the binary inside the version's directory
version_binary(version) == <<"data_dir", version, "zksolc-", version>>

\* A file of the data directory: absent, or present with its content
Absent == [exists |-> FALSE, content |-> <<>>]

File(content) == [exists |-> TRUE, content |-> content]

\* A write of one chunk at offset off of a file holding content; a gap left
\* by a truncation of the file reads as zeros.
WriteAt(content, off, chunk) ==
  LET n == IF Len(content) > off + 1 THEN Len(content) ELSE off + 1
  IN  [i \in 1..n |-> IF i = off + 1 THEN chunk
                      ELSE IF i <= Len(content) THEN content[i] ELSE 0]



\* The global version file of the data directory, and the temporary file
\* of caller c that is renamed over it
global_version_path == <<"data_dir", ".global-version">>

temp_path(c) == <<"data_dir", ".global-version.tmp", c>>

StorePaths == {global_version_path} \cup {temp_path(c) : c \in 1..NProcs}

(***************************************************************************)
(* State.                                                                  *)
(*   manifest    the list.json the release server publishes at this moment *)
(*   dataDir     whether the data directory exists                         *)
(*   lockFile    per lock path, the inode it names (0: no such file); an   *)
(*               inode is named after the invocation that created it       *)
(*   versionDir  per version, whether its directory exists                 *)
(*   binary      per version, the content of its binary (Absent: no file)  *)
(*   executable  per version, whether its binary has mode 0o755            *)
(*   pc          per invocation, the call of install() it is about to make *)
(*   ver         per invocation, the version it was asked to install       *)
(*   cat         per invocation, the manifest it fetched ("none": not yet) *)
(*   status      per invocation, the status of the response to its         *)
(*               download request (0: no response yet)                     *)
(*   binbytes    per invocation, the downloaded bytes (<<>>: none)         *)
(*   fd          per invocation, the inode its open lock file refers to    *)
(*   off         per invocation, the offset of its open binary file        *)
(*   result      per invocation, what install() returns                    *)
(*   effects     per invocation, what of the data directory it has created *)
(*               or modified so far ("lock", "dir", "bin")                 *)
(*   uPlatform, uVersion, uArtifact, uResult                               *)
(*               an application of artifact_url and its result             *)
(*   rCatalog, rJson, rParsed                                              *)
(*               a Releases value, the JSON text serde_json::to_string     *)
(*               makes of it and what serde_json::from_str reads back      *)
(*   gFiles      the global version file and the temporary files that      *)
(*               replace it, by path (Absent: no such file)                *)
(*   sPc, sArg   per caller of the global version store, the step of       *)
(*               set_global_version it is at and the version it sets       *)
(*   sDone       the store operation that returned last: its name, its     *)
(*               version argument and its result, and the number of        *)
(*               operations that have returned                             *)
(*   sCalls      the number of store operations that have been called      *)
(*   sLast       the argument of the set_global_version that returned      *)
(*               last, None when an unset_global_version returned after    *)
(*               it or when there was none                                 *)
(***************************************************************************)
VARIABLES manifest, dataDir, lockFile, versionDir, binary, executable,
          pc, ver, cat, status, binbytes, fd, off, result, effects,
          uPlatform, uVersion, uArtifact, uResult,
          rCatalog, rJson, rParsed,
          gFiles, sPc, sArg, sDone, sCalls, sLast,
          cPc, cCmd, cSnap, cInv, cRes, cTodo

\* The invocations of install
Procs == DOMAIN pc

fsVars == <<dataDir, lockFile, versionDir, binary, executable>>

procVars == <<pc, ver, cat, status, binbytes, fd, off, result, effects>>

urlVars == <<uPlatform, uVersion, uArtifact, uResult>>

codecVars == <<rCatalog, rJson, rParsed>>

storeVars == <<gFiles, sPc, sArg, sDone, sCalls, sLast>>

cliVars == <<cPc, cCmd, cSnap, cInv, cRes, cTodo>>

\* What the installer does not touch
sideVars == <<urlVars, codecVars, storeVars, cliVars>>

vars == <<manifest, fsVars, procVars, sideVars>>

NoResult == Err("none", <<>>)

\* An empty data directory that is not yet created
InitData ==
  /\ manifest = "A"
  /\ dataDir = FALSE
  /\ lockFile = [l \in LockPaths |-> 0]
  /\ versionDir = [v \in InstallVersions |-> FALSE]
  /\ binary = [v \in InstallVersions |-> Absent]
  /\ executable = [v \in InstallVersions |-> FALSE]

\* No invocation has been called
InitInvocations(invocations) ==
  /\ pc = [p \in invocations |-> "idle"]
  /\ ver = [p \in invocations |-> NoVersion]
  /\ cat = [p \in invocations |-> "none"]
  /\ status = [p \in invocations |-> 0]
  /\ binbytes = [p \in invocations |-> <<>>]
  /\ fd = [p \in invocations |-> 0]
  /\ off = [p \in invocations |-> 0]
  /\ result = [p \in invocations |-> NoResult]
  /\ effects = [p \in invocations |-> {}]

InitInstaller(invocations) == InitData /\ InitInvocations(invocations)

InitUrlUnused ==
  /\ uPlatform = "LinuxAmd64"
  /\ uVersion = NoVersion
  /\ uArtifact = <<>>
  /\ uResult = NoResult

InitCodecUnused ==
  /\ rCatalog = [builds |-> <<>>, releases |-> <<>>]
  /\ rJson = None
  /\ rParsed = NoResult

\* No store operation has been called, there is no global version file
InitStoreUnused ==
  /\ gFiles = [path \in StorePaths |-> Absent]
  /\ sPc = [c \in 1..NProcs |-> "idle"]
  /\ sArg = [c \in 1..NProcs |-> NoVersion]
  /\ sDone = [n |-> 0, op |-> "none", arg |-> NoVersion, ret |-> NoResult]
  /\ sCalls = 0
  /\ sLast = None

\* A command as parsed from the arguments, with the answer the user gives
\* when the command asks
Cmd(name, version, answer) ==
  [name |-> name, version |-> version, answer |-> answer]

NoCmd == Cmd("none", NoVersion, FALSE)

\* What a command reads before it acts
Snap(all, installed, current) ==
  [all_versions |-> all, installed_versions |-> installed,
   current_version |-> current]

NoSnap == Snap(<<>>, <<>>, None)

\* No command has been started
InitCliUnused ==
  /\ cPc = [c \in 1..NProcs |-> "idle"]
  /\ cCmd = [c \in 1..NProcs |-> NoCmd]
  /\ cSnap = [c \in 1..NProcs |-> NoSnap]
  /\ cInv = [c \in 1..NProcs |-> 0]
  /\ cRes = [c \in 1..NProcs |-> NoResult]
  /\ cTodo = [c \in 1..NProcs |-> <<>>]

InitSideUnused ==
  InitUrlUnused /\ InitCodecUnused /\ InitStoreUnused /\ InitCliUnused

Init == InitInstaller(1..NProcs) /\ InitSideUnused

\* One invocation more, for what only three or more invocations show
InitCrowd == InitInstaller(1..(NProcs + 1)) /\ InitSideUnused

\* install() returns r before it has opened the lock file: its locals are gone
Return(p, r) ==
  /\ pc' = [pc EXCEPT ![p] = "done"]
  /\ result' = [result EXCEPT ![p] = r]
  /\ cat' = [cat EXCEPT ![p] = "none"]
  /\ binbytes' = [binbytes EXCEPT ![p] = <<>>]

\* An error after the lock was acquired: the LockFile guard is dropped first
Unwind(p, r) ==
  /\ pc' = [pc EXCEPT ![p] = "unlink"]
  /\ result' = [result EXCEPT ![p] = r]

\* SvmError::IoError(std::io::Error): the error names no version
IoError(call) == Err("IoError", <<>>)

(***************************************************************************)
(* install(version), lines 61-97 (blocking_install, lines 22-56, makes     *)
(* the same calls in the same order).                                      *)
(***************************************************************************)
\* Invocations are interchangeable: they are numbered in the order of their
\* calls.
Callable(p) == pc[p] = "idle" /\ \A q \in Procs : q < p => pc[q] # "idle"

\* An install that returns at once when the binary of the version exists.
CallSkipInstalled(p, v) ==
  /\ Callable(p)
  /\ ver' = [ver EXCEPT ![p] = v]
  /\ dataDir' = TRUE
  /\ IF binary[v].exists
     THEN Return(p, Ok(<<>>))
     ELSE /\ pc' = [pc EXCEPT ![p] = "fetch"]
          /\ UNCHANGED <<cat, binbytes, result>>
  /\ UNCHANGED <<manifest, status, lockFile, versionDir, binary, executable,
                 fd, off, effects, sideVars>>

\* install is called; setup_data_dir() creates the data directory
Call(p, v) ==
  /\ Callable(p)
  /\ ver' = [ver EXCEPT ![p] = v]
  /\ dataDir' = TRUE
  /\ pc' = [pc EXCEPT ![p] = "fetch"]
  /\ UNCHANGED <<manifest, status, lockFile, versionDir, binary, executable,
                 cat, binbytes, fd, off, result, effects, sideVars>>

\* setup_data_dir()? fails
CallErr(p, v) ==
  /\ Callable(p)
  /\ ver' = [ver EXCEPT ![p] = v]
  /\ Return(p, IoError("setup_data_dir"))
  /\ UNCHANGED <<manifest, status, fsVars, fd, off, effects, sideVars>>

\* What install does with the catalog it fetched, up to the download request
Resolve(p, artifacts) ==
  LET artifact == get_artifact(artifacts, ver[p])
  IN  IF ~artifact.some
      THEN Return(p, Err("UnknownVersion", <<>>))
      ELSE LET download_url == artifact_url(platform, ver[p], artifact.value)
           IN  IF ~download_url.ok
               THEN Return(p, download_url)
               ELSE IF ~get_checksum(artifacts, ver[p]).some
               THEN Return(p, Err("panic", <<"checksum not available", ver[p]>>))
               ELSE /\ pc' = [pc EXCEPT ![p] = "download"]
                    /\ cat' = [cat EXCEPT ![p] = manifest]
                    /\ UNCHANGED <<result, binbytes>>

\* A fetch that is answered from the catalog of an earlier call.
FetchCatalogCached(p) ==
  /\ pc[p] = "fetch"
  /\ Resolve(p, Manifests["A"])
  /\ UNCHANGED <<manifest, status, fsVars, ver, fd, off, effects, sideVars>>

\* all_releases(platform).await answers with the manifest published now
FetchCatalog(p) ==
  /\ pc[p] = "fetch"
  /\ Resolve(p, Manifests[manifest])
  /\ UNCHANGED <<manifest, status, fsVars, ver, fd, off, effects, sideVars>>

\* all_releases(platform).await? fails (transport, or a malformed manifest)
FetchCatalogErr(p) ==
  /\ pc[p] = "fetch"
  /\ Return(p, Err("ReqwestError", <<>>))
  /\ UNCHANGED <<manifest, status, fsVars, ver, fd, off, effects, sideVars>>

expected_checksum(p) == get_checksum(Manifests[cat[p]], ver[p]).value

resolved_url(p) ==
  artifact_url(platform, ver[p], get_artifact(Manifests[cat[p]], ver[p]).value)

\* The statuses of a response: success is any 2xx status
SuccessStatuses == {200}

ErrorStatuses == {404, 500}

\* res.bytes().await? has the body; ensure_checksum verifies it
Receive(p, code, bytes) ==
  /\ pc[p] = "download"
  /\ status' = [status EXCEPT ![p] = code]
  /\ LET checked == ensure_checksum(bytes, ver[p], expected_checksum(p))
     IN  IF checked.ok
         THEN /\ pc' = [pc EXCEPT ![p] = "open"]
              /\ binbytes' = [binbytes EXCEPT ![p] = bytes]
              /\ cat' = [cat EXCEPT ![p] = "none"]
              /\ UNCHANGED result
         ELSE Return(p, checked)
  /\ UNCHANGED <<manifest, fsVars, ver, fd, off, effects, sideVars>>

\* The response arrives with a success status and the body bytes
Download(p, bytes) ==
  \E code \in SuccessStatuses : Receive(p, code, bytes)

\* A response whose status is not looked at: its body is taken as the binary.
DownloadStatusUnchecked(p, code) ==
  \E bytes \in Payloads : Receive(p, code, bytes)

\* The response arrives with a status that is not a success
DownloadUnsuccessful(p, code) ==
  /\ pc[p] = "download"
  /\ status' = [status EXCEPT ![p] = code]
  /\ Return(p, Err("UnsuccessfulResponse", <<resolved_url(p).detail, code>>))
  /\ UNCHANGED <<manifest, fsVars, ver, fd, off, effects, sideVars>>

\* A transport error of an install that opens its lock file before it sends
\* the request.
DownloadErrLockFileOpened(p) ==
  /\ pc[p] = "download"
  /\ lockFile' = [lockFile EXCEPT ![lock_file_path(ver[p])] =
                    IF @ = 0 THEN p ELSE @]
  /\ effects' = [effects EXCEPT ![p] = @ \cup {"lock"}]
  /\ Return(p, Err("ReqwestError", <<>>))
  /\ UNCHANGED <<manifest, status, dataDir, versionDir, binary, executable,
                 ver, fd, off, sideVars>>

\* send().await? or bytes().await? fails (transport error, timeout)
DownloadErr(p) ==
  /\ pc[p] = "download"
  /\ Return(p, Err("ReqwestError", <<>>))
  /\ UNCHANGED <<manifest, status, fsVars, ver, fd, off, effects, sideVars>>



(***************************************************************************)
(* try_lock_file and LockFile, lines 112-138.  The exclusive lock is a     *)
(* lock on the open file, that is on the inode the path named when the     *)
(* file was opened; it lasts until the file is closed.  When a LockFile is *)
(* dropped, Drop::drop removes the path first and the field _lock_file is  *)
(* closed after it.                                                        *)
(***************************************************************************)
\* A lock that an invocation holds from the moment it has opened the file.
HoldsLockSinceOpen(q) ==
  pc[q] \in {"lock", "setup", "create", "chmod", "write", "unlink", "close"}

\* q holds the exclusive lock on the inode fd[q]
HoldsLock(q) ==
  pc[q] \in {"setup", "create", "chmod", "write", "unlink", "close"}

\* p is inside do_install: it creates the version directory or writes the binary
Installing(p) == pc[p] \in {"setup", "create", "chmod", "write"}

\* OpenOptions::new().create(true).truncate(true).read(true).write(true).open
OpenLock(p) ==
  /\ pc[p] = "open"
  /\ LET lock_path == lock_file_path(ver[p])
         inode == IF lockFile[lock_path] = 0 THEN p ELSE lockFile[lock_path]
     IN  /\ lockFile' = [lockFile EXCEPT ![lock_path] = inode]
         /\ fd' = [fd EXCEPT ![p] = inode]
  /\ effects' = [effects EXCEPT ![p] = @ \cup {"lock"}]
  /\ pc' = [pc EXCEPT ![p] = "lock"]
  /\ UNCHANGED <<manifest, status, dataDir, versionDir, binary, executable,
                 ver, cat, binbytes, off, result, sideVars>>

\* open(&lock_path)? fails
OpenLockErr(p) ==
  /\ pc[p] = "open"
  /\ Return(p, IoError("open"))
  /\ UNCHANGED <<manifest, status, fsVars, ver, fd, off, effects, sideVars>>

\* _lock_file.lock_exclusive() returns once no other open file holds the lock
LockExclusive(p) ==
  /\ pc[p] = "lock"
  /\ \A q \in Procs \ {p} : ~(fd[q] = fd[p] /\ HoldsLock(q))
  /\ pc' = [pc EXCEPT ![p] = "setup"]
  /\ UNCHANGED <<manifest, status, fsVars, ver, cat, binbytes, fd, off, result,
                 effects, sideVars>>

\* _lock_file.lock_exclusive()? fails: the file is closed, no LockFile exists
LockExclusiveErr(p) ==
  /\ pc[p] = "lock"
  /\ fd' = [fd EXCEPT ![p] = 0]
  /\ Return(p, IoError("lock_exclusive"))
  /\ UNCHANGED <<manifest, status, fsVars, ver, off, effects, sideVars>>

(***************************************************************************)
(* do_install, lines 99-110, and Installer::install, lines 155-166.        *)
(***************************************************************************)
\* setup_version(&version.to_string()) creates the version's directory
SetupVersion(p) ==
  /\ pc[p] = "setup"
  /\ versionDir' = [versionDir EXCEPT ![ver[p]] = TRUE]
  /\ effects' = [effects EXCEPT ![p] = @ \cup {"dir"}]
  /\ pc' = [pc EXCEPT ![p] = "create"]
  /\ UNCHANGED <<manifest, status, dataDir, lockFile, binary, executable,
                 ver, cat, binbytes, fd, off, result, sideVars>>

SetupVersionErr(p) ==
  /\ pc[p] = "setup"
  /\ Unwind(p, IoError("setup_version"))
  /\ UNCHANGED <<manifest, status, fsVars, ver, cat, binbytes, fd, off, effects, sideVars>>

\* fs::File::create(&zksolc_path) creates the file, or truncates the one there
CreateBinary(p) ==
  /\ pc[p] = "create"
  /\ versionDir[ver[p]]
  /\ binary' = [binary EXCEPT ![ver[p]] = File(<<>>)]
  /\ off' = [off EXCEPT ![p] = 0]
  /\ effects' = [effects EXCEPT ![p] = @ \cup {"bin"}]
  /\ pc' = [pc EXCEPT ![p] = "chmod"]
  /\ UNCHANGED <<manifest, status, dataDir, lockFile, versionDir, executable,
                 ver, cat, binbytes, fd, result, sideVars>>

CreateBinaryErr(p) ==
  /\ pc[p] = "create"
  /\ Unwind(p, IoError("create"))
  /\ UNCHANGED <<manifest, status, fsVars, ver, cat, binbytes, fd, off, effects, sideVars>>

\* f.set_permissions(Permissions::from_mode(0o755))
SetPermissions(p) ==
  /\ pc[p] = "chmod"
  /\ executable' = [executable EXCEPT ![ver[p]] = TRUE]
  /\ pc' = [pc EXCEPT ![p] = "write"]
  /\ UNCHANGED <<manifest, status, dataDir, lockFile, versionDir, binary,
                 ver, cat, binbytes, fd, off, result, effects, sideVars>>

SetPermissionsErr(p) ==
  /\ pc[p] = "chmod"
  /\ Unwind(p, IoError("set_permissions"))
  /\ UNCHANGED <<manifest, status, fsVars, ver, cat, binbytes, fd, off, effects, sideVars>>

\* f.write_all(self.binbytes): one write(2) of the next chunk at the file's
\* offset; after the last one Installer::install returns Ok(zksolc_path)
WriteChunk(p) ==
  /\ pc[p] = "write"
  /\ binary' = [binary EXCEPT ![ver[p]] =
                  File(WriteAt(@.content, off[p], binbytes[p][off[p] + 1]))]
  /\ off' = [off EXCEPT ![p] = @ + 1]
  /\ IF off[p] + 1 = Len(binbytes[p])
     THEN Unwind(p, Ok(version_binary(ver[p])))
     ELSE UNCHANGED <<pc, result>>
  /\ UNCHANGED <<manifest, status, dataDir, lockFile, versionDir, executable,
                 ver, cat, binbytes, fd, effects, sideVars>>

WriteChunkErr(p) ==
  /\ pc[p] = "write"
  /\ Unwind(p, IoError("write_all"))
  /\ UNCHANGED <<manifest, status, fsVars, ver, cat, binbytes, fd, off, effects, sideVars>>

\* Drop for LockFile: let _ = fs::remove_file(&self.lock_path)
RemoveLockFile(p) ==
  /\ pc[p] = "unlink"
  /\ lockFile' = [lockFile EXCEPT ![lock_file_path(ver[p])] = 0]
  /\ pc' = [pc EXCEPT ![p] = "close"]
  /\ UNCHANGED <<manifest, status, dataDir, versionDir, binary, executable,
                 ver, cat, binbytes, fd, off, result, effects, sideVars>>

\* The field _lock_file is dropped: the file is closed and its lock released
CloseLockFile(p) ==
  /\ pc[p] = "close"
  /\ fd' = [fd EXCEPT ![p] = 0]
  /\ off' = [off EXCEPT ![p] = 0]
  /\ binbytes' = [binbytes EXCEPT ![p] = <<>>]
  /\ pc' = [pc EXCEPT ![p] = "done"]
  /\ UNCHANGED <<manifest, status, fsVars, ver, cat, result, effects, sideVars>>

\* The release server replaces manifest "A" by its revision "B"
Publish ==
  /\ manifest = "A"
  /\ manifest' = "B"
  /\ UNCHANGED <<fsVars, procVars, sideVars>>

\* The calls that have failed so far: each ended its invocation with one of
\* these errors
Faults ==
  Cardinality({p \in Procs :
     result[p].kind \in {"IoError", "ReqwestError", "UnsuccessfulResponse"}})

\* The steps of an invocation in which nothing fails
Proceed(p) ==
  \/ \E v \in InstallVersions : Call(p, v)
  \/ FetchCatalog(p)
  \/ \E bytes \in Payloads : Download(p, bytes)
  \/ OpenLock(p)
  \/ LockExclusive(p)
  \/ SetupVersion(p)
  \/ CreateBinary(p)
  \/ SetPermissions(p)
  \/ WriteChunk(p)
  \/ RemoveLockFile(p)
  \/ CloseLockFile(p)

\* The steps in which a call of the invocation fails
Fail(p) ==
  /\ Faults < MaxFaults
  /\ \/ \E v \in InstallVersions : CallErr(p, v)
     \/ FetchCatalogErr(p)
     \/ \E code \in ErrorStatuses : DownloadUnsuccessful(p, code)
     \/ DownloadErr(p)
     \/ OpenLockErr(p)
     \/ LockExclusiveErr(p)
     \/ SetupVersionErr(p)
     \/ CreateBinaryErr(p)
     \/ SetPermissionsErr(p)
     \/ WriteChunkErr(p)

Next ==
  \/ \E p \in Procs : Proceed(p)
  \/ \E p \in Procs : Fail(p)
  \/ Publish

Spec == Init /\ [][Next]_vars

SpecCrowd == InitCrowd /\ [][Next]_vars

\* Invocations that are called one after the other: an invocation makes its
\* steps while no other invocation is in progress
Alone(p) == \A q \in Procs \ {p} : pc[q] \in {"idle", "done"}

NextSerial ==
  \/ \E p \in Procs : Alone(p) /\ Proceed(p)
  \/ \E p \in Procs : Alone(p) /\ Fail(p)
  \/ Publish

SpecSerial == Init /\ [][NextSerial]_vars

(***************************************************************************)
(* Fair scheduling of the invocations in an environment in which no call   *)
(* fails: as long as some invocation can take a step, one of them does     *)
(* (the operating system runs the threads, and grants a free lock to one   *)
(* of the threads waiting for it).  An invocation makes a bounded number   *)
(* of steps, so every invocation that stays able to take a step takes it.  *)
(***************************************************************************)
LiveNext ==
  \E p \in Procs : Proceed(p)

LiveSpec == Init /\ [][LiveNext]_vars /\ WF_vars(LiveNext)

(***************************************************************************)
(* installed_versions(): the version directories found in the data         *)
(* directory, sorted.                                                      *)
(***************************************************************************)
RECURSIVE SortedVersions(_)
SortedVersions(S) ==
  IF S = {} THEN <<>>
  ELSE LET least == CHOOSE x \in S : \A y \in S : VersionLe(x, y)
       IN  <<least>> \o SortedVersions(S \ {least})

installed_versions == SortedVersions({v \in InstallVersions : versionDir[v]})

Count(seq, x) == Cardinality({i \in DOMAIN seq : seq[i] = x})

(***************************************************************************)
(* Applications of artifact_url to every platform, to versions on both     *)
(* sides of VERSION_MIN and VERSION_MAX, and to short artifact names.      *)
(***************************************************************************)
UrlVersions ==
  UNION {{Version(a, b, c), PreRelease(a, b, c)} :
           <<a, b, c>> \in {0, 1, 2} \X {3, 4} \X {0, 1, 2, 12, 13, 14, 17}}

UrlArtifacts ==
  UNION {[1..n -> ArtifactChars] : n \in 1..MaxArtifactLen}

InitUrl ==
  /\ InitInstaller(1..NProcs)
  /\ InitCodecUnused
  /\ InitStoreUnused
  /\ InitCliUnused
  /\ uPlatform \in Platforms
  /\ uVersion \in UrlVersions
  /\ uArtifact \in UrlArtifacts
  /\ uResult = NoResult

ResolveUrl ==
  /\ uResult.kind = "none"
  /\ uResult' = artifact_url(uPlatform, uVersion, uArtifact)
  /\ UNCHANGED <<manifest, fsVars, procVars, uPlatform, uVersion, uArtifact,
                 cliVars, codecVars, storeVars>>

SpecUrl == InitUrl /\ [][ResolveUrl]_vars

(***************************************************************************)
(* Releases as JSON (releases.rs, the serde derives of Releases and        *)
(* BuildInfo and the module hex_string).  A JSON text is modelled by its   *)
(* members in the order they are written; strings are sequences of         *)
(* characters.  hex is the crate that has encode_prefixed: its decode      *)
(* strips one leading "0x", and fails on an odd length and on a character  *)
(* that is not a hex digit.                                                *)
(***************************************************************************)
\* number of build records of a catalog
MaxBuilds == 2
\* number of bytes of a checksum
MaxDigestLen == 1

HexDigits ==
  <<"0", "1", "2", "3", "4", "5", "6", "7",
    "8", "9", "a", "b", "c", "d", "e", "f">>

HexDigitsUpper ==
  <<"0", "1", "2", "3", "4", "5", "6", "7",
    "8", "9", "A", "B", "C", "D", "E", "F">>

\* The value of a hex digit, -1 for any other character
HexValue(c) ==
  IF \E n \in 1..16 : HexDigits[n] = c
  THEN (CHOOSE n \in 1..16 : HexDigits[n] = c) - 1
  ELSE IF \E n \in 1..16 : HexDigitsUpper[n] = c
  THEN (CHOOSE n \in 1..16 : HexDigitsUpper[n] = c) - 1
  ELSE -1

\* hex::encode: two lower-case digits per byte
encode(bytes) ==
  [i \in 1..(2 * Len(bytes)) |->
     IF i % 2 = 1 THEN HexDigits[(bytes[(i + 1) \div 2] \div 16) + 1]
     ELSE HexDigits[(bytes[i \div 2] % 16) + 1]]

\* hex::encode_prefixed
encode_prefixed(bytes) == <<"0", "x">> \o encode(bytes)

strip_prefix(input) ==
  IF Len(input) >= 2 /\ input[1] = "0" /\ input[2] = "x"
  THEN SubSeq(input, 3, Len(input))
  ELSE input

\* A decoder that knows no prefix: "x" is not a hex digit.
decode_unprefixed(input) ==
  IF Len(input) % 2 # 0 THEN Err("FromHexError", <<"OddLength">>)
  ELSE IF \E i \in 1..Len(input) : HexValue(input[i]) = -1
  THEN Err("FromHexError", <<"InvalidHexCharacter">>)
  ELSE Ok([i \in 1..(Len(input) \div 2) |->
             16 * HexValue(input[2 * i - 1]) + HexValue(input[2 * i])])

\* hex::decode
decode(input) ==
  IF Len(input) % 2 # 0 THEN Err("FromHexError", <<"OddLength">>)
  ELSE LET digits == strip_prefix(input)
       IN  IF \E i \in 1..Len(digits) : HexValue(digits[i]) = -1
           THEN Err("FromHexError", <<"InvalidHexCharacter">>)
           ELSE Ok([i \in 1..(Len(digits) \div 2) |->
                      16 * HexValue(digits[2 * i - 1])
                        + HexValue(digits[2 * i])])

\* hex_string::serialize
hex_string_serialize(value) == encode_prefixed(value)

\* hex_string::deserialize
hex_string_deserialize(text) == decode(text)

\* semver::Version as Display, the form serde writes
VersionToString(v) ==
  <<v.major, ".", v.minor, ".", v.patch>>
    \o (IF v.pre = "" THEN <<>> ELSE <<"-", v.pre>>)

\* semver::Version as FromStr, the form serde reads
VersionFromStr(text) ==
  IF Len(text) = 5 /\ text[2] = "." /\ text[4] = "."
  THEN Ok([major |-> text[1], minor |-> text[3], patch |-> text[5],
           pre |-> ""])
  ELSE IF Len(text) = 7 /\ text[2] = "." /\ text[4] = "." /\ text[6] = "-"
  THEN Ok([major |-> text[1], minor |-> text[3], patch |-> text[5],
           pre |-> text[7]])
  ELSE Err("SemverError", <<>>)

\* serde_json::to_string(&releases): the builds in the order of the Vec, the
\* releases in the order of the BTreeMap (ascending versions)
to_string(releases) ==
  [builds   |-> [i \in 1..Len(releases.builds) |->
                   [version |-> VersionToString(releases.builds[i].version),
                    sha256  |-> hex_string_serialize(releases.builds[i].sha256)]],
   releases |-> LET keys == SortedVersions(DOMAIN releases.releases)
                IN  [i \in 1..Len(keys) |->
                       <<VersionToString(keys[i]), releases.releases[keys[i]]>>]]

\* serde_json::from_str::<Releases>(text)
from_str(text) ==
  LET build(i) == [version |-> VersionFromStr(text.builds[i].version),
                   sha256  |-> hex_string_deserialize(text.builds[i].sha256)]
      entry(i) == VersionFromStr(text.releases[i][1])
  IN  IF \/ \E i \in 1..Len(text.builds) :
                ~build(i).version.ok \/ ~build(i).sha256.ok
         \/ \E i \in 1..Len(text.releases) : ~entry(i).ok
      THEN Err("SerdeJsonError", <<>>)
      ELSE Ok([builds   |-> [i \in 1..Len(text.builds) |->
                               BuildInfo(build(i).version.detail,
                                         build(i).sha256.detail)],
               releases |-> [v \in {entry(i).detail :
                                      i \in 1..Len(text.releases)} |->
                               LET hits == {i \in 1..Len(text.releases) :
                                              entry(i).detail = v}
                               IN  text.releases[
                                     CHOOSE i \in hits :
                                       \A j \in hits : j <= i][2]]])

\* The catalogs that are serialized: checksums of every length up to
\* MaxDigestLen, with bytes whose digits are 0, letters and mixed
CodecBytes == {0, 10, 255}

CodecDigests == UNION {[1..n -> CodecBytes] : n \in 0..MaxDigestLen}

CodecVersions == {V1, PreRelease(1, 4, 1)}

CodecBuilds ==
  UNION {[1..n -> {BuildInfo(v, d) : v \in CodecVersions, d \in CodecDigests}] :
           n \in 0..MaxBuilds}

CodecReleases ==
  UNION {[S -> {<<"z", "7">>}] : S \in SUBSET CodecVersions}

InitCodec ==
  /\ InitInstaller(1..NProcs)
  /\ InitUrlUnused
  /\ InitStoreUnused
  /\ InitCliUnused
  /\ rCatalog \in [builds : CodecBuilds, releases : CodecReleases]
  /\ rJson = None
  /\ rParsed = NoResult

Serialize ==
  /\ ~rJson.some
  /\ rJson' = Some(to_string(rCatalog))
  /\ UNCHANGED <<manifest, fsVars, procVars, cliVars, urlVars, storeVars, rCatalog,
                 rParsed>>

Parse ==
  /\ rJson.some
  /\ rParsed.kind = "none"
  /\ rParsed' = from_str(rJson.value)
  /\ UNCHANGED <<manifest, fsVars, procVars, cliVars, urlVars, storeVars, rCatalog,
                 rJson>>

SpecCodec == InitCodec /\ [][Serialize \/ Parse]_vars

(***************************************************************************)
(* The global version store (lib.rs): set_global_version,                  *)
(* get_global_version, unset_global_version and remove_version, as the     *)
(* specification describes them.  The global version file holds the        *)
(* version string; it is replaced as a whole: set_global_version writes a  *)
(* temporary file and renames it over the global version file.  A text is  *)
(* written by write_all in up to two write calls.                          *)
(***************************************************************************)
\* number of store operations that are called
MaxCalls == 3

\* The versions that are set as global
StoreVersions == {V1, V2}

\* The two chunks write_all writes for the string of a version
TextChunks(v) ==
  LET text == VersionToString(v)
  IN  <<SubSeq(text, 1, 3), SubSeq(text, 4, Len(text))>>

\* A write of one chunk at offset off of a text file; a gap left by a
\* truncation of the file reads as a NUL
WriteText(content, offset, chunk) ==
  LET n == IF Len(content) > offset + 1 THEN Len(content) ELSE offset + 1
  IN  [i \in 1..n |-> IF i = offset + 1 THEN chunk
                      ELSE IF i <= Len(content) THEN content[i] ELSE <<0>>]

\* A set_global_version that writes the global version file in place.
set_global_target_in_place(c) == global_version_path

\* The file set_global_version creates and writes
set_global_target(c) == temp_path(c)

\* fs::rename(from, to)
Rename(files, from, to) ==
  IF from = to THEN files
  ELSE [files EXCEPT ![to] = files[from], ![from] = Absent]

\* A get_global_version for which a missing file is an error.
get_global_version_strict(files) ==
  LET file == files[global_version_path]
  IN  IF ~file.exists THEN Err("IoError", <<>>)
      ELSE IF \E v \in StoreVersions : file.content = TextChunks(v)
      THEN Ok(Some(CHOOSE v \in StoreVersions : file.content = TextChunks(v)))
      ELSE Err("ParseError", <<>>)

\* get_global_version(): no file is Ok(None), a version string Ok(Some(v)),
\* any other content a parse error
get_global_version(files) ==
  LET file == files[global_version_path]
  IN  IF ~file.exists THEN Ok(None)
      ELSE IF \E v \in StoreVersions : file.content = TextChunks(v)
      THEN Ok(Some(CHOOSE v \in StoreVersions : file.content = TextChunks(v)))
      ELSE Err("ParseError", <<>>)

\* The store operation op of caller c, called with version v, returns r
StoreReturn(c, op, v, r) ==
  /\ sPc' = [sPc EXCEPT ![c] = "idle"]
  /\ sArg' = [sArg EXCEPT ![c] = NoVersion]
  /\ sDone' = [n |-> sDone.n + 1, op |-> op, arg |-> v, ret |-> r]

\* Caller c calls a store operation
StoreCall(c) ==
  /\ sPc[c] = "idle"
  /\ sCalls < MaxCalls
  /\ sCalls' = sCalls + 1

\* set_global_version(v): the file is created
SetGlobalCreate(c, v) ==
  /\ StoreCall(c)
  /\ gFiles' = [gFiles EXCEPT ![set_global_target(c)] = File(<<>>)]
  /\ sPc' = [sPc EXCEPT ![c] = "write"]
  /\ sArg' = [sArg EXCEPT ![c] = v]
  /\ UNCHANGED <<manifest, fsVars, procVars, cliVars, urlVars, codecVars, sDone, sLast>>

\* set_global_version(v): write_all writes a chunk of the version string
SetGlobalWrite(c) ==
  /\ sPc[c] \in {"write", "write2"}
  /\ LET offset == IF sPc[c] = "write" THEN 0 ELSE 1
         target == set_global_target(c)
     IN  gFiles' = [gFiles EXCEPT ![target] =
                      File(WriteText(@.content, offset,
                                     TextChunks(sArg[c])[offset + 1]))]
  /\ sPc' = [sPc EXCEPT ![c] = IF @ = "write" THEN "write2" ELSE "rename"]
  /\ UNCHANGED <<manifest, fsVars, procVars, cliVars, urlVars, codecVars,
                 sArg, sDone, sCalls, sLast>>

\* set_global_version(v): the file replaces the global version file
SetGlobalRename(c) ==
  /\ sPc[c] = "rename"
  /\ gFiles' = Rename(gFiles, set_global_target(c), global_version_path)
  /\ sLast' = Some(sArg[c])
  /\ StoreReturn(c, "set", sArg[c], Ok(<<>>))
  /\ UNCHANGED <<manifest, fsVars, procVars, cliVars, urlVars, codecVars, sCalls>>

\* unset_global_version(): the global version file is removed; no file to
\* remove is not an error
UnsetGlobal(c) ==
  /\ StoreCall(c)
  /\ gFiles' = [gFiles EXCEPT ![global_version_path] = Absent]
  /\ sLast' = None
  /\ StoreReturn(c, "unset", NoVersion, Ok(<<>>))
  /\ UNCHANGED <<manifest, fsVars, procVars, cliVars, urlVars, codecVars>>

\* get_global_version()
GetGlobal(c) ==
  /\ StoreCall(c)
  /\ StoreReturn(c, "get", NoVersion, get_global_version(gFiles))
  /\ UNCHANGED <<manifest, fsVars, procVars, cliVars, urlVars, codecVars, gFiles, sLast>>

\* A remove_version that fails when the version directory does not exist.
remove_version_strict(dirs, v) ==
  IF dirs[v] THEN Ok([dirs EXCEPT ![v] = FALSE])
  ELSE Err("IoError", <<>>)

\* remove_version(v): the directory of v is deleted; no directory to delete
\* is not an error
remove_version(dirs, v) == Ok([dirs EXCEPT ![v] = FALSE])

RemoveVersion(c, v) ==
  /\ StoreCall(c)
  /\ LET removed == remove_version(versionDir, v)
     IN  /\ StoreReturn(c, "remove", v,
                        IF removed.ok THEN Ok(<<>>) ELSE removed)
         /\ IF removed.ok
            THEN /\ versionDir' = removed.detail
                 /\ binary' = [binary EXCEPT ![v] = Absent]
                 /\ executable' = [executable EXCEPT ![v] = FALSE]
            ELSE UNCHANGED <<versionDir, binary, executable>>
  /\ UNCHANGED <<manifest, dataDir, lockFile, procVars, cliVars, urlVars, codecVars,
                 gFiles, sLast>>

\* A data directory with some versions installed and no global version file
InitStore ==
  /\ manifest = "A"
  /\ dataDir = TRUE
  /\ lockFile = [l \in LockPaths |-> 0]
  /\ versionDir \in {[v \in InstallVersions |-> v \in S] :
                        S \in SUBSET StoreVersions}
  /\ binary = [v \in InstallVersions |->
                 IF versionDir[v] THEN File(GoodBytes) ELSE Absent]
  /\ executable = versionDir
  /\ InitInvocations(1..NProcs)
  /\ InitUrlUnused
  /\ InitCodecUnused
  /\ InitStoreUnused
  /\ InitCliUnused

StoreStep(c) ==
  \/ \E v \in StoreVersions : SetGlobalCreate(c, v)
  \/ SetGlobalWrite(c)
  \/ SetGlobalRename(c)
  \/ UnsetGlobal(c)
  \/ GetGlobal(c)
  \/ \E v \in InstallVersions : RemoveVersion(c, v)

\* Callers of the store that race with each other
SpecStore == InitStore /\ [][\E c \in 1..NProcs : StoreStep(c)]_vars

(***************************************************************************)
(* The commands of the binary.  main sets up the data directory and runs   *)
(* the command; a command reads the catalog, the installed versions and    *)
(* the global version, and then acts.  A command that installs calls       *)
(* install as the next invocation and goes on when the invocation has      *)
(* returned.                                                               *)
(*   cPc[c]    position of command c: "idle", "install" (waiting for its   *)
(*             invocation of install), "done"                              *)
(*   cCmd[c]   the command and the answer of the user                      *)
(*   cSnap[c]  what the command read before it acted                       *)
(*   cInv[c]   the invocation of install the command called, 0 for none    *)
(*   cRes[c]   what the command returned                                   *)
(*   cTodo[c]  the versions the loop of the command has still to process   *)
(***************************************************************************)
Cmds == DOMAIN cPc

\* Vec::contains
Contains(seq, x) == \E i \in DOMAIN seq : seq[i] = x

\* Releases::into_versions: the versions of the releases map, sorted
into_versions(self) == SortedVersions(DOMAIN self.releases)

\* all_versions(): the versions of the catalog fetched now
all_versions(m) == into_versions(Manifests[m])

\* A set_global_version that writes into the existing file and leaves the
\* start of another version string in place.
set_global_version_in_place(files, v) ==
  LET old == files[global_version_path]
      content == IF old.exists /\ old.content # TextChunks(v)
                      /\ Len(old.content) = 2
                 THEN <<old.content[1], TextChunks(v)[2]>>
                 ELSE TextChunks(v)
  IN  [files EXCEPT ![global_version_path] = File(content)]

\* set_global_version(v) as a whole: the global version file holds the
\* string of v
set_global_version(files, v) ==
  [files EXCEPT ![global_version_path] = File(TextChunks(v))]

\* The versions given to commands
CliVersions == {VOld, V1, V2}

\* The most versions given to one install command
MaxVersions == 2

\* A command is started as the first process that runs no command
Startable(c) ==
  /\ cPc[c] = "idle"
  /\ \A d \in Cmds : d < c => cPc[d] \notin {"idle", "done"}

\* Command c returns r
CmdReturn(c, r) ==
  /\ cPc' = [cPc EXCEPT ![c] = "done"]
  /\ cRes' = [cRes EXCEPT ![c] = r]

\* The command calls install(v), as invocation p of its process, and waits
\* for it
CmdInstall(c, p, v) ==
  /\ p = c
  /\ pc[p] \in {"idle", "done"}
  /\ ver' = [ver EXCEPT ![p] = v]
  /\ pc' = [pc EXCEPT ![p] = "fetch"]
  /\ status' = [status EXCEPT ![p] = 0]
  /\ result' = [result EXCEPT ![p] = NoResult]
  /\ effects' = [effects EXCEPT ![p] = {}]
  /\ cPc' = [cPc EXCEPT ![c] = "install"]
  /\ cInv' = [cInv EXCEPT ![c] = p]
  /\ UNCHANGED <<cat, binbytes, fd, off, cRes>>

\* main has returned: the process of the command ends, with its invocation
\* of install
CmdExit(c) ==
  /\ cPc[c] = "done"
  /\ cPc' = [cPc EXCEPT ![c] = "idle"]
  /\ cCmd' = [cCmd EXCEPT ![c] = NoCmd]
  /\ cSnap' = [cSnap EXCEPT ![c] = NoSnap]
  /\ cInv' = [cInv EXCEPT ![c] = 0]
  /\ cRes' = [cRes EXCEPT ![c] = NoResult]
  /\ cTodo' = [cTodo EXCEPT ![c] = <<>>]
  /\ pc' = [pc EXCEPT ![c] = "idle"]
  /\ ver' = [ver EXCEPT ![c] = NoVersion]
  /\ status' = [status EXCEPT ![c] = 0]
  /\ result' = [result EXCEPT ![c] = NoResult]
  /\ effects' = [effects EXCEPT ![c] = {}]
  /\ UNCHANGED <<manifest, fsVars, cat, binbytes, fd, off, urlVars, codecVars,
                 storeVars>>

\* Requests of commands that failed
CmdFaults ==
  Cardinality({c \in Cmds :
                 cInv[c] = 0 /\ cRes[c].kind \in {"ReqwestError", "IoError"}})

\* use <version>, up to the return or to the call of install
UseRun(c, v, answer) ==
  /\ Startable(c)
  /\ dataDir' = TRUE
  /\ LET all == all_versions(manifest)
         installed == installed_versions
         current == get_global_version(gFiles)
     IN  /\ cCmd' = [cCmd EXCEPT ![c] = Cmd("use", v, answer)]
         /\ IF ~current.ok
            THEN /\ CmdReturn(c, current)
                 /\ cInv' = [cInv EXCEPT ![c] = 0]
                 /\ UNCHANGED <<gFiles, procVars, cSnap>>
            ELSE /\ cSnap' = [cSnap EXCEPT
                                ![c] = Snap(all, installed, current.detail)]
                 /\ IF Contains(installed, v)
                    THEN /\ gFiles' = set_global_version(gFiles, v)
                         /\ CmdReturn(c, Ok(<<>>))
                         /\ cInv' = [cInv EXCEPT ![c] = 0]
                         /\ UNCHANGED procVars
                    ELSE IF Contains(all, v) /\ answer
                    THEN /\ \E p \in Procs : CmdInstall(c, p, v)
                         /\ UNCHANGED gFiles
                    ELSE /\ CmdReturn(c, Ok(<<>>))
                         /\ cInv' = [cInv EXCEPT ![c] = 0]
                         /\ UNCHANGED <<gFiles, procVars>>
  /\ UNCHANGED <<manifest, lockFile, versionDir, binary, executable,
                 urlVars, codecVars, sPc, sArg, sDone, sCalls, sLast, cTodo>>

\* use <version>: the request of all_versions fails
UseRunErr(c, v, answer) ==
  /\ Startable(c)
  /\ cInv' = [cInv EXCEPT ![c] = 0]
  /\ Faults + CmdFaults < MaxFaults
  /\ dataDir' = TRUE
  /\ cCmd' = [cCmd EXCEPT ![c] = Cmd("use", v, answer)]
  /\ CmdReturn(c, Err("ReqwestError", <<>>))
  /\ UNCHANGED <<manifest, lockFile, versionDir, binary, executable,
                 procVars, urlVars, codecVars, storeVars, cSnap, cTodo>>

\* use <version>: install has returned; the version becomes the global one
\* if no global version was read at the start
UseInstalled(c) ==
  /\ cPc[c] = "install"
  /\ cCmd[c].name = "use"
  /\ pc[cInv[c]] = "done"
  /\ LET r == result[cInv[c]]
     IN  IF r.ok
         THEN /\ gFiles' = IF ~cSnap[c].current_version.some
                           THEN set_global_version(gFiles, cCmd[c].version)
                           ELSE gFiles
              /\ CmdReturn(c, Ok(<<>>))
         ELSE /\ CmdReturn(c, r)
              /\ UNCHANGED gFiles
  /\ UNCHANGED <<manifest, fsVars, procVars, urlVars, codecVars,
                 sPc, sArg, sDone, sCalls, sLast, cCmd, cSnap, cInv, cTodo>>

\* unset_global_version() as a whole: the global version file is removed
unset_global_version(files) ==
  [files EXCEPT ![global_version_path] = Absent]

\* remove all: the installed versions are enumerated
RemoveAllRun(c) ==
  /\ Startable(c)
  /\ cInv' = [cInv EXCEPT ![c] = 0]
  /\ dataDir' = TRUE
  /\ cCmd' = [cCmd EXCEPT ![c] = Cmd("remove_all", NoVersion, FALSE)]
  /\ cTodo' = [cTodo EXCEPT ![c] = installed_versions]
  /\ cPc' = [cPc EXCEPT ![c] = "remove"]
  /\ UNCHANGED <<manifest, lockFile, versionDir, binary, executable,
                 procVars, urlVars, codecVars, storeVars, cSnap, cRes>>

\* remove all: remove_version(&v)? of the next enumerated version
RemoveAllStep(c) ==
  /\ cPc[c] = "remove"
  /\ cCmd[c].name = "remove_all"
  /\ cTodo[c] # <<>>
  /\ LET v == Head(cTodo[c])
     IN  /\ versionDir' = remove_version(versionDir, v).detail
         /\ binary' = [binary EXCEPT ![v] = Absent]
         /\ executable' = [executable EXCEPT ![v] = FALSE]
  /\ cTodo' = [cTodo EXCEPT ![c] = Tail(@)]
  /\ UNCHANGED <<manifest, dataDir, lockFile, procVars, urlVars, codecVars,
                 storeVars, cPc, cCmd, cSnap, cInv, cRes>>

\* A remove all that goes on with the next version after a failed removal
\* and returns the error at the end.
RemoveAllStepErrGoesOn(c) ==
  /\ cPc[c] = "remove"
  /\ cCmd[c].name = "remove_all"
  /\ cTodo[c] # <<>>
  /\ Faults + CmdFaults < MaxFaults
  /\ IF Tail(cTodo[c]) = <<>>
     THEN /\ gFiles' = unset_global_version(gFiles)
          /\ CmdReturn(c, IoError("remove_version"))
          /\ cTodo' = [cTodo EXCEPT ![c] = <<>>]
     ELSE /\ cTodo' = [cTodo EXCEPT ![c] = Tail(@)]
          /\ UNCHANGED <<gFiles, cPc, cRes>>
  /\ UNCHANGED <<manifest, fsVars, procVars, urlVars, codecVars,
                 sPc, sArg, sDone, sCalls, sLast, cCmd, cSnap, cInv>>

\* remove all: remove_version(&v)? fails, the command returns the error
RemoveAllStepErr(c) ==
  /\ cPc[c] = "remove"
  /\ cCmd[c].name = "remove_all"
  /\ cTodo[c] # <<>>
  /\ Faults + CmdFaults < MaxFaults
  /\ CmdReturn(c, IoError("remove_version"))
  /\ UNCHANGED <<manifest, fsVars, procVars, urlVars, codecVars, storeVars,
                 cCmd, cSnap, cInv, cTodo>>

\* remove all: every version is removed; unset_global_version()? and Ok(())
RemoveAllUnset(c) ==
  /\ cPc[c] = "remove"
  /\ cCmd[c].name = "remove_all"
  /\ cTodo[c] = <<>>
  /\ gFiles' = unset_global_version(gFiles)
  /\ CmdReturn(c, Ok(<<>>))
  /\ UNCHANGED <<manifest, fsVars, procVars, urlVars, codecVars,
                 sPc, sArg, sDone, sCalls, sLast, cCmd, cSnap, cInv, cTodo>>

\* A choice of the new global version that takes the first of the remaining
\* versions.
new_global_first(installed, v) ==
  LET others == SelectSeq(installed, LAMBDA x : x # v)
  IN  IF others = <<>> THEN None ELSE Some(Head(others))

\* installed_versions.remove(i) of the removed version, then
\* installed_versions.pop(): the last of the remaining versions, if any
new_global(installed, v) ==
  LET others == SelectSeq(installed, LAMBDA x : x # v)
  IN  IF others = <<>> THEN None ELSE Some(others[Len(others)])

\* A remove <version> that leaves the global version as it is.
RemoveRunKeepsGlobal(c, v, answer, fails) ==
  /\ Startable(c)
  /\ cInv' = [cInv EXCEPT ![c] = 0]
  /\ ~fails
  /\ dataDir' = TRUE
  /\ cCmd' = [cCmd EXCEPT ![c] = Cmd("remove", v, answer)]
  /\ cSnap' = [cSnap EXCEPT
                 ![c] = Snap(<<>>, installed_versions,
                             get_global_version(gFiles).detail)]
  /\ CmdReturn(c, Ok(<<>>))
  /\ IF Contains(installed_versions, v) /\ answer
     THEN /\ versionDir' = remove_version(versionDir, v).detail
          /\ binary' = [binary EXCEPT ![v] = Absent]
          /\ executable' = [executable EXCEPT ![v] = FALSE]
     ELSE UNCHANGED <<versionDir, binary, executable>>
  /\ UNCHANGED <<manifest, lockFile, procVars, urlVars, codecVars, storeVars,
                 cTodo>>

\* remove <version>; fails: remove_version(&version)? returns an error
RemoveRun(c, v, answer, fails) ==
  /\ Startable(c)
  /\ cInv' = [cInv EXCEPT ![c] = 0]
  /\ dataDir' = TRUE
  /\ cCmd' = [cCmd EXCEPT ![c] = Cmd("remove", v, answer)]
  /\ LET installed == installed_versions
         current == get_global_version(gFiles)
     IN  IF ~current.ok
         THEN /\ ~fails
              /\ CmdReturn(c, current)
              /\ UNCHANGED <<versionDir, binary, executable, gFiles, cSnap>>
         ELSE /\ cSnap' = [cSnap EXCEPT
                             ![c] = Snap(<<>>, installed, current.detail)]
              /\ IF Contains(installed, v) /\ answer
                 THEN IF fails
                      THEN /\ Faults + CmdFaults < MaxFaults
                           /\ CmdReturn(c, IoError("remove_version"))
                           /\ UNCHANGED <<versionDir, binary, executable,
                                          gFiles>>
                      ELSE /\ versionDir' = remove_version(versionDir, v).detail
                           /\ binary' = [binary EXCEPT ![v] = Absent]
                           /\ executable' = [executable EXCEPT ![v] = FALSE]
                           /\ gFiles' =
                                IF current.detail = Some(v)
                                THEN LET new == new_global(installed, v)
                                     IN  IF new.some
                                         THEN set_global_version(gFiles,
                                                                 new.value)
                                         ELSE unset_global_version(gFiles)
                                ELSE gFiles
                           /\ CmdReturn(c, Ok(<<>>))
                 ELSE /\ ~fails
                      /\ CmdReturn(c, Ok(<<>>))
                      /\ UNCHANGED <<versionDir, binary, executable, gFiles>>
  /\ UNCHANGED <<manifest, lockFile, procVars, urlVars, codecVars,
                 sPc, sArg, sDone, sCalls, sLast, cTodo>>

\* The lists of versions given to an install command
CliVersionLists ==
  UNION {[1..n -> CliVersions] : n \in 1..MaxVersions}

\* install <versions>; fails: the request of all_versions fails
InstallRun(c, versions, fails) ==
  /\ Startable(c)
  /\ dataDir' = TRUE
  /\ cCmd' = [cCmd EXCEPT ![c] = Cmd("install", NoVersion, FALSE)]
  /\ IF fails
     THEN /\ Faults + CmdFaults < MaxFaults
          /\ CmdReturn(c, Err("ReqwestError", <<>>))
          /\ UNCHANGED <<cSnap, cTodo>>
     ELSE /\ cSnap' = [cSnap EXCEPT
                         ![c] = Snap(all_versions(manifest), <<>>, None)]
          /\ cTodo' = [cTodo EXCEPT ![c] = versions]
          /\ cPc' = [cPc EXCEPT ![c] = "loop"]
          /\ UNCHANGED cRes
  /\ UNCHANGED <<manifest, lockFile, versionDir, binary, executable,
                 procVars, urlVars, codecVars, storeVars>>
  /\ cInv' = [cInv EXCEPT ![c] = 0]

\* install <versions>: the next version of the loop, up to the call of
\* install or to the end of its turn; Ok(()) after the last version
InstallNext(c, answer) ==
  /\ cPc[c] = "loop"
  /\ cCmd[c].name = "install"
  /\ IF cTodo[c] = <<>>
     THEN /\ CmdReturn(c, Ok(<<>>))
          /\ UNCHANGED <<gFiles, procVars, cCmd, cSnap, cInv, cTodo>>
     ELSE LET v == Head(cTodo[c])
              installed == installed_versions
              current == get_global_version(gFiles)
          IN  IF ~current.ok
              THEN /\ CmdReturn(c, current)
                   /\ UNCHANGED <<gFiles, procVars, cCmd, cSnap, cInv, cTodo>>
              ELSE /\ cCmd' = [cCmd EXCEPT ![c] = Cmd("install", v, answer)]
                   /\ cSnap' = [cSnap EXCEPT
                                  ![c] = Snap(@.all_versions, installed,
                                              current.detail)]
                   /\ cTodo' = [cTodo EXCEPT ![c] = Tail(@)]
                   /\ IF Contains(installed, v)
                      THEN /\ gFiles' = IF answer
                                        THEN set_global_version(gFiles, v)
                                        ELSE gFiles
                           /\ UNCHANGED <<procVars, cPc, cInv, cRes>>
                      ELSE IF Contains(cSnap[c].all_versions, v)
                      THEN /\ \E p \in Procs : CmdInstall(c, p, v)
                           /\ UNCHANGED gFiles
                      ELSE UNCHANGED <<gFiles, procVars, cPc, cInv, cRes>>
  /\ UNCHANGED <<manifest, fsVars, urlVars, codecVars,
                 sPc, sArg, sDone, sCalls, sLast>>

\* An install command that makes every version it installs the global one.
InstallInstalledSetsGlobal(c) ==
  /\ cPc[c] = "install"
  /\ cCmd[c].name = "install"
  /\ pc[cInv[c]] = "done"
  /\ LET r == result[cInv[c]]
     IN  IF r.ok
         THEN /\ gFiles' = set_global_version(gFiles, cCmd[c].version)
              /\ cPc' = [cPc EXCEPT ![c] = "loop"]
              /\ UNCHANGED cRes
         ELSE /\ CmdReturn(c, r)
              /\ UNCHANGED gFiles
  /\ UNCHANGED <<manifest, fsVars, procVars, urlVars, codecVars,
                 sPc, sArg, sDone, sCalls, sLast, cCmd, cSnap, cInv, cTodo>>

\* install <versions>: install has returned; the version becomes the global
\* one if no global version was read at the start of its turn
InstallInstalled(c) ==
  /\ cPc[c] = "install"
  /\ cCmd[c].name = "install"
  /\ pc[cInv[c]] = "done"
  /\ LET r == result[cInv[c]]
     IN  IF r.ok
         THEN /\ gFiles' = IF ~cSnap[c].current_version.some
                           THEN set_global_version(gFiles, cCmd[c].version)
                           ELSE gFiles
              /\ cPc' = [cPc EXCEPT ![c] = "loop"]
              /\ UNCHANGED cRes
         ELSE /\ CmdReturn(c, r)
              /\ UNCHANGED gFiles
  /\ UNCHANGED <<manifest, fsVars, procVars, urlVars, codecVars,
                 sPc, sArg, sDone, sCalls, sLast, cCmd, cSnap, cInv, cTodo>>

\* A data directory with some versions installed and no global version or
\* an installed one
InitCli ==
  /\ manifest = "A"
  /\ dataDir = TRUE
  /\ lockFile = [l \in LockPaths |-> 0]
  /\ versionDir \in {[v \in InstallVersions |-> v \in S] :
                        S \in SUBSET StoreVersions}
  /\ binary = [v \in InstallVersions |->
                 IF versionDir[v] THEN File(GoodBytes) ELSE Absent]
  /\ executable = versionDir
  /\ InitInvocations(1..NProcs)
  /\ InitUrlUnused
  /\ InitCodecUnused
  /\ gFiles \in {[path \in StorePaths |->
                    IF path = global_version_path THEN file ELSE Absent] :
                   file \in {Absent}
                              \cup {File(TextChunks(v)) :
                                      v \in {w \in StoreVersions :
                                                versionDir[w]}}}
  /\ sPc = [c \in 1..NProcs |-> "idle"]
  /\ sArg = [c \in 1..NProcs |-> NoVersion]
  /\ sDone = [n |-> 0, op |-> "none", arg |-> NoVersion, ret |-> NoResult]
  /\ sCalls = 0
  /\ sLast = None
  /\ InitCliUnused

\* No other command is in progress
CmdAlone(c) == \A d \in Cmds \ {c} : cPc[d] \in {"idle", "done"}

CmdStep(c) ==
  \/ \E v \in CliVersions, answer \in BOOLEAN : UseRun(c, v, answer)
  \/ \E v \in CliVersions, answer \in BOOLEAN : UseRunErr(c, v, answer)
  \/ UseInstalled(c)
  \/ RemoveAllRun(c)
  \/ RemoveAllStep(c)
  \/ RemoveAllStepErr(c)
  \/ RemoveAllUnset(c)
  \/ \E v \in CliVersions, answer, fails \in BOOLEAN :
       RemoveRun(c, v, answer, fails)
  \/ \E versions \in CliVersionLists, fails \in BOOLEAN :
       InstallRun(c, versions, fails)
  \/ \E answer \in BOOLEAN : InstallNext(c, answer)
  \/ InstallInstalled(c)
  \/ CmdExit(c)

\* The steps of an invocation that a command called; the I/O and transport
\* errors of install are left to the specifications of the installer
InstallStep(p) ==
  /\ pc[p] # "idle"
  /\ Proceed(p)

NextCli ==
  \/ \E c \in Cmds : CmdAlone(c) /\ CmdStep(c)
  \/ \E p \in Procs : InstallStep(p)
  \/ Publish

SpecCli == InitCli /\ [][NextCli]_vars

\* Commands run one at a time, none of which meets an I/O or transport error
NextNoIoError ==
  \/ \E c \in Cmds :
       /\ CmdAlone(c)
       /\ \/ \E v \in CliVersions, answer \in BOOLEAN : UseRun(c, v, answer)
          \/ UseInstalled(c)
          \/ RemoveAllRun(c)
          \/ RemoveAllStep(c)
          \/ RemoveAllUnset(c)
          \/ \E v \in CliVersions, answer \in BOOLEAN :
               RemoveRun(c, v, answer, FALSE)
          \/ \E versions \in CliVersionLists :
               InstallRun(c, versions, FALSE)
          \/ \E answer \in BOOLEAN : InstallNext(c, answer)
          \/ InstallInstalled(c)
          \/ CmdExit(c)
  \/ \E p \in Procs : InstallStep(p)
  \/ Publish

SpecNoIoError == InitCli /\ [][NextNoIoError]_vars

\* The two processes whose install commands race
Racers == {c \in Cmds : c <= 2}

\* Install commands, each for one version, of two processes that run at the
\* same time; each process runs one command
NextRace ==
  \/ \E c \in Racers, v \in StoreVersions :
       cPc[c] = "idle" /\ InstallRun(c, <<v>>, FALSE)
  \/ \E c \in Cmds, answer \in BOOLEAN : InstallNext(c, answer)
  \/ \E c \in Cmds : InstallInstalled(c)
  \/ \E p \in Procs : InstallStep(p)

\* The commands race in a data directory with no version and no global version
InitRace ==
  /\ InitCli
  /\ installed_versions = <<>>

SpecRace == InitRace /\ [][NextRace]_vars

(***************************************************************************)
(* The claims.                                                             *)
(***************************************************************************)
Running(p) == pc[p] \notin {"idle", "done"}

Succeeded(p) == pc[p] = "done" /\ result[p].kind = "Ok"

\* C1: at most one invocation for a version is inside the section that
\* creates the version directory and writes the binary, whatever the number
\* of concurrent invocations for that version.
C1_MutualExclusion ==
  \A p, q \in Procs :
    p # q /\ ver[p] = ver[q] => ~(Installing(p) /\ Installing(q))

\* C2: an invocation goes on after its download only with bytes whose digest
\* is the checksum of its version in the catalog it fetched; one that ended with ChecksumMismatch has returned
\* without having created or modified the lock file, the version directory
\* or the binary, and holds no open lock file.
C2_MismatchWritesNothing ==
  /\ [][\A p \in Procs :
          pc[p] = "download" /\ pc'[p] = "open"
            => Sha256(binbytes'[p])
                 = get_checksum(Manifests[cat[p]], ver[p]).value]_vars
  /\ [](\A p \in Procs :
          /\ pc[p] \in {"open", "lock", "setup", "create", "chmod", "write"}
               => binbytes[p] # <<>>
          /\ result[p].kind = "ChecksumMismatch"
               => /\ pc[p] = "done"
                  /\ effects[p] = {}
                  /\ fd[p] = 0
                  /\ result[p].detail[2] # result[p].detail[3])

C2_Witness ==
  \E p \in Procs :
    /\ pc[p] = "done"
    /\ result[p].kind = "ChecksumMismatch"
    /\ result[p].detail[1] = V1

\* C3: every invocation that is past the checksum test returns Ok eventually,
\* however many other invocations for its version are in progress (none of
\* them blocks it for ever); and when two invocations for the same version
\* have returned Ok, installed_versions() lists the version exactly once.
C3_BothEventuallySucceed ==
  /\ \A p \in 1..NProcs : (Running(p) /\ binbytes[p] # <<>>) ~> Succeeded(p)
  /\ [](\A p, q \in Procs :
          p # q /\ ver[p] = ver[q] /\ Succeeded(p) /\ Succeeded(q)
            => Count(installed_versions, ver[p]) = 1)

C3_Witness ==
  \E p, q \in Procs :
    /\ p # q
    /\ ver[p] = ver[q]
    /\ Succeeded(p)
    /\ Succeeded(q)
    /\ Count(installed_versions, ver[p]) = 1

\* C4: the binary of a version is absent or holds a complete payload; it is
\* never empty or partially written.
C4_BinaryAbsentOrComplete ==
  \A v \in InstallVersions :
    binary[v].exists => binary[v].content \in Payloads

\* C5: whenever no invocation for version v is in progress, no lock file for
\* v exists.
C5_NoLockFileWhenQuiescent ==
  \A v \in InstallVersions :
    (\A p \in Procs : ver[p] = v => ~Running(p))
      => lockFile[lock_file_path(v)] = 0

\* C6: when the catalog an invocation fetched lacks the artifact name or the
\* checksum of its version, the invocation returns UnknownVersion, and the
\* data directory is as it was.
C6_MissingEntryIsUnknownVersion ==
  [][\A p \in Procs :
       (/\ pc[p] = "fetch"
        /\ pc'[p] # "fetch"
        /\ result'[p].kind # "ReqwestError"
        /\ \/ ~get_artifact(Manifests[manifest], ver[p]).some
           \/ ~get_checksum(Manifests[manifest], ver[p]).some)
         => /\ pc'[p] = "done"
            /\ result'[p].kind = "UnknownVersion"
            /\ lockFile' = lockFile
            /\ versionDir' = versionDir
            /\ binary' = binary]_vars

\* C7: a step of an invocation for version v leaves the lock file, the
\* directory and the binary of every other version as they were; the lock
\* file an invocation has open was created for its own version; and an
\* invocation that waits for the lock waits for an invocation of its own
\* version.
C7_VersionsDoNotInterfere ==
  /\ [](\A p \in Procs :
          /\ fd[p] # 0 => ver[fd[p]] = ver[p]
          /\ \A q \in Procs \ {p} :
               pc[p] = "lock" /\ fd[q] = fd[p] /\ HoldsLock(q)
                 => ver[q] = ver[p])
  /\ [][\A p \in Procs :
          (pc'[p] # pc[p] \/ off'[p] # off[p])
            => \A w \in InstallVersions \ {ver'[p]} :
                 /\ lockFile'[lock_file_path(w)] = lockFile[lock_file_path(w)]
                 /\ versionDir'[w] = versionDir[w]
                 /\ binary'[w] = binary[w]
                 /\ executable'[w] = executable[w]]_vars

C7_Witness ==
  \E p, q \in Procs :
    /\ ver[p] = V1 /\ pc[p] = "write"
    /\ ver[q] = V2 /\ pc[q] = "write"
    /\ fd[p] # fd[q]

\* C8: a version is listed by installed_versions() only if an invocation for
\* it has returned Ok.
C8_ListedOnlyAfterSuccess ==
  \A v \in InstallVersions :
    Count(installed_versions, v) > 0
      => \E p \in Procs : ver[p] = v /\ Succeeded(p)

\* The URL prefix of each platform that has a binary source of its own.
UrlPrefix(p) ==
  CASE p = "LinuxAmd64"   ->
         "https://github.com/dutterbutter/zksolc-bin/raw/db/generate-list/linux-amd64"
    [] p = "LinuxAarch64" ->
         "https://github.com/dutterbutter/zksolc-bin/raw/db/generate-list/linux-arm64"
    [] p = "MacOsAmd64"   ->
         "https://github.com/dutterbutter/zksolc-bin/raw/db/generate-list/macosx-amd64"
    [] p = "MacOsAarch64" ->
         "https://github.com/dutterbutter/zksolc-bin/raw/db/generate-list/macosx-arm64"
    [] p = "WindowsAmd64" ->
         "https://github.com/dutterbutter/zksolc-bin/raw/db/generate-list/windows-amd64"

C10_BelowMinimumRejected ==
  (uResult.kind # "none" /\ VersionLt(uVersion, Version(1, 3, 13)))
    => /\ ~uResult.ok
       /\ uResult.kind = "UnsupportedVersion"
       /\ uResult.detail = <<uVersion, PlatformName(uPlatform)>>

C10_Witness ==
  /\ uResult.kind = "UnsupportedVersion"
  /\ uPlatform = "Unsupported"
  /\ uVersion = Version(1, 3, 12)

C12_UnsuccessfulResponseIsFinal ==
  /\ [](\A p \in Procs :
          (status[p] # 0 /\ status[p] \notin 200..299)
            => /\ pc[p] = "done"
               /\ result[p].kind = "UnsuccessfulResponse"
               /\ result[p].detail[2] = status[p]
               /\ \E m \in DOMAIN Manifests :
                    /\ get_artifact(Manifests[m], ver[p]).some
                    /\ result[p].detail[1] =
                         <<UrlPrefix(platform), "/">>
                           \o get_artifact(Manifests[m], ver[p]).value
               /\ effects[p] = {}
               /\ fd[p] = 0
               /\ binbytes[p] = <<>>)
  /\ [][\A p \in Procs :
          /\ pc[p] = "done"
               => /\ pc'[p] = "done"
                  /\ status'[p] = status[p]
                  /\ result'[p] = result[p]
          /\ result[p].kind \notin {"none", "Ok"}
               => /\ result'[p] = result[p]
                  /\ effects'[p] = effects[p]
                  /\ pc'[p] \in {"unlink", "close", "done"}]_vars

C12_Witness ==
  \E p \in Procs :
    /\ pc[p] = "done"
    /\ status[p] = 404
    /\ result[p].kind = "UnsuccessfulResponse"
    /\ ver[p] = V1

\* C13: an invocation has its lock file open only after its download was
\* answered with success and the bytes passed the checksum test; an
\* invocation that returned UnknownVersion, UnsupportedVersion, a transport
\* error, UnsuccessfulResponse or ChecksumMismatch has not created or opened
\* the lock file; and every step that makes a network request (the manifest
\* fetch, the download) is made by an invocation that has no lock file open.
C13_LockOnlyAfterVerifiedDownload ==
  /\ [](\A p \in Procs :
          /\ (fd[p] # 0 \/ "lock" \in effects[p])
               => /\ status[p] \in 200..299
                  /\ pc[p] \notin {"idle", "fetch", "download"}
                  /\ result[p].kind
                       \notin {"UnknownVersion", "UnsupportedVersion",
                               "ReqwestError", "UnsuccessfulResponse",
                               "ChecksumMismatch"}
          /\ fd[p] # 0
               => \E m \in DOMAIN Manifests :
                    /\ get_checksum(Manifests[m], ver[p]).some
                    /\ Sha256(binbytes[p])
                         = get_checksum(Manifests[m], ver[p]).value
          /\ HoldsLock(p) => pc[p] \notin {"idle", "fetch", "download", "open"})
  /\ [][\A p \in Procs :
          (pc[p] \in {"fetch", "download"} /\ pc'[p] # pc[p])
            => /\ fd[p] = 0 /\ fd'[p] = 0
               /\ "lock" \notin effects'[p]
               /\ lockFile' = lockFile]_vars

C13_Witness ==
  \E p, q \in Procs :
    /\ result[p].kind = "ChecksumMismatch"
    /\ effects[p] = {}
    /\ pc[q] = "write"
    /\ fd[q] # 0
    /\ ver[q] = ver[p]

\* C14: the catalog read back from the JSON text written for a catalog is
\* the catalog: every checksum is written as "0x" followed by its hex digits
\* and read back as the same bytes, the build records keep their order and
\* the releases map is the same.
C14_JsonRoundTrip ==
  /\ rJson.some
       => \A i \in 1..Len(rCatalog.builds) :
            /\ SubSeq(rJson.value.builds[i].sha256, 1, 2) = <<"0", "x">>
            /\ Len(rJson.value.builds[i].sha256)
                 = 2 + 2 * Len(rCatalog.builds[i].sha256)
  /\ rParsed.kind # "none"
       => /\ rParsed.ok
          /\ rParsed.detail.builds = rCatalog.builds
          /\ DOMAIN rParsed.detail.releases = DOMAIN rCatalog.releases
          /\ \A v \in DOMAIN rCatalog.releases :
               rParsed.detail.releases[v] = rCatalog.releases[v]

C14_Witness ==
  /\ rParsed.kind = "Ok"
  /\ Len(rCatalog.builds) = 2
  /\ rCatalog.builds[1].sha256 = <<10>>
  /\ rCatalog.builds[2].version = PreRelease(1, 4, 1)
  /\ DOMAIN rCatalog.releases = CodecVersions

\* C15: get_global_version returns the argument of the set_global_version
\* that returned last when no unset_global_version returned after it, and
\* the unset result (Ok(None), not an error) otherwise, also when there never
\* was a global version file; set_global_version succeeds and overwrites
\* whatever was set, unset_global_version succeeds also when no file exists.
C15_GetReturnsLastSet ==
  [][sDone'.n # sDone.n
       => /\ sDone'.op = "get" => sDone'.ret = Ok(sLast)
          /\ sDone'.op = "set"
               => /\ sDone'.ret.ok
                  /\ get_global_version(gFiles') = Ok(Some(sDone'.arg))
          /\ sDone'.op = "unset"
               => /\ sDone'.ret.ok
                  /\ get_global_version(gFiles') = Ok(None)]_vars

C15_Witness ==
  /\ sDone.op = "get"
  /\ sDone.ret = Ok(Some(V2))
  /\ sLast = Some(V2)
  /\ sCalls = 3

\* C16: remove_version of a version that has no directory (it was never
\* installed, or was removed before) returns Ok and leaves the installed
\* versions, their binaries and the global version file as they were.
C16_RemoveAbsentIsNoOp ==
  [][(sDone'.n # sDone.n /\ sDone'.op = "remove"
        /\ ~versionDir[sDone'.arg])
       => /\ sDone'.ret.ok
          /\ versionDir' = versionDir
          /\ binary' = binary
          /\ gFiles' = gFiles
          /\ sLast' = sLast]_vars

C16_Witness ==
  /\ sCalls = 3
  /\ sDone.op = "remove"
  /\ sDone.arg = V1
  /\ sDone.ret.ok
  /\ ~versionDir[V1]
  /\ versionDir[V2]
  /\ sLast = Some(V1)

\* C17: while set_global_version calls race with each other and with
\* get_global_version, the global version file is absent or holds the whole
\* version string of the set_global_version that returned last, and every
\* get_global_version returns Ok with no version or with a version that was
\* set: never a parse error for an empty, truncated or interleaved content.
C17_ReaderSeesWholePointer ==
  /\ [](/\ get_global_version(gFiles).ok
        /\ gFiles[global_version_path].exists
             => /\ sLast.some
                /\ gFiles[global_version_path].content
                     = TextChunks(sLast.value))
  /\ [][(sDone'.n # sDone.n /\ sDone'.op = "get")
          => /\ sDone'.ret.ok
             /\ sDone'.ret.detail.some
                  => sDone'.ret.detail.value \in StoreVersions]_vars

C17_Witness ==
  \E c \in 1..NProcs :
    /\ sPc[c] = "write2"
    /\ sArg[c] = V2
    /\ gFiles[temp_path(c)].exists
    /\ sDone.op = "get"
    /\ sDone.ret = Ok(Some(V1))

\* C18: an install of a version that is installed goes through the same
\* steps as the first one (it is not skipped: it fetches the catalog,
\* downloads, takes the lock, truncates and rewrites the binary), and at the
\* step in which an install returns Ok the version directory exists, is
\* listed once, and the binary is executable and holds exactly the bytes the
\* install verified; while the manifest is the first one, these are the same
\* bytes for every install: the state the first successful install left.
C18_ReinstallRewritesSameState ==
  /\ [](\A p \in Procs :
          Succeeded(p)
            => /\ effects[p] = {"lock", "dir", "bin"}
               /\ status[p] \in 200..299)
  /\ [][\A p \in Procs :
          /\ (pc[p] = "setup" /\ pc'[p] = "create" /\ versionDir[ver[p]])
               => installed_versions' = installed_versions
          /\ (pc[p] = "create" /\ pc'[p] = "chmod")
               => binary'[ver[p]] = File(<<>>)
          /\ (pc[p] # "done" /\ pc'[p] = "done" /\ result'[p].kind = "Ok")
               => /\ versionDir'[ver[p]]
                  /\ Count(installed_versions', ver[p]) = 1
                  /\ executable'[ver[p]]
                  /\ binary'[ver[p]] = File(binbytes[p])
                  /\ binbytes[p] \in Payloads
                  /\ manifest = "A" => binary'[ver[p]] = File(GoodBytes)]_vars

C18_Witness ==
  \E p, q \in Procs :
    /\ p # q
    /\ ver[p] = V1 /\ ver[q] = V1
    /\ Succeeded(p)
    /\ Succeeded(q)
    /\ manifest = "A"
    /\ binary[V1] = File(GoodBytes)

\* C19: an invocation holds no catalog before its own fetch and after its
\* return; its fetch resolves the version against the manifest published at
\* that moment, whatever manifest earlier invocations fetched, and its
\* checksum test uses the checksum of the manifest it fetched itself.
C19_EveryCallFetchesAnew ==
  /\ [](\A p \in Procs : pc[p] \in {"idle", "fetch", "done"} => cat[p] = "none")
  /\ [][\A p \in Procs :
          /\ (pc[p] = "fetch" /\ pc'[p] = "download") => cat'[p] = manifest
          /\ (pc[p] = "fetch" /\ pc'[p] # "fetch"
                /\ result'[p].kind # "ReqwestError")
               => /\ result'[p].kind = "UnknownVersion"
                       <=> ~get_artifact(Manifests[manifest], ver[p]).some
                  /\ pc'[p] = "download"
                       => /\ get_artifact(Manifests[manifest], ver[p]).some
                          /\ get_checksum(Manifests[manifest], ver[p]).some
          /\ (pc[p] = "download" /\ result'[p].kind = "ChecksumMismatch")
               => result'[p].detail[2]
                    = get_checksum(Manifests[cat[p]], ver[p]).value]_vars

C19_Witness ==
  \E p, q \in Procs :
    /\ ver[p] = V1 /\ ver[q] = V1
    /\ Succeeded(p)
    /\ binary[V1] = File(GoodBytes)
    /\ pc[q] = "done"
    /\ result[q].kind = "ChecksumMismatch"
    /\ result[q].detail[2] = Sha256(OtherBytes)
    /\ result[q].detail[3] = Sha256(GoodBytes)


\* C20: when a use command returns Ok having acted on its version (the
\* version was installed, or it was in the catalog and the user accepted
\* the installation), the global version is that version, whatever it was
\* before; when the version was neither installed nor in the catalog, or the
\* user declined, the installed versions and the global version are as the
\* command found them.
C20_UseSetsGlobal ==
  [][\A c \in Cmds :
       (cPc[c] # "done" /\ cPc'[c] = "done"
          /\ cCmd'[c].name = "use" /\ cRes'[c].ok)
         => LET v == cCmd'[c].version
                found == cSnap'[c]
                acted == \/ Contains(found.installed_versions, v)
                         \/ /\ Contains(found.all_versions, v)
                            /\ cCmd'[c].answer
            IN  IF acted
                THEN get_global_version(gFiles') = Ok(Some(v))
                ELSE /\ installed_versions' = found.installed_versions
                     /\ get_global_version(gFiles')
                          = Ok(found.current_version)]_vars


\* C23: at the step in which an invocation deletes the lock file path of its
\* version, the file at that path is not one on which another invocation
\* holds the exclusive lock, whatever the number of concurrent invocations
\* for the version.
C23_DeletesOnlyOwnLockFile ==
  [][\A p \in Procs :
       (pc[p] = "unlink" /\ pc'[p] = "close")
         => LET inode == lockFile[lock_file_path(ver[p])]
            IN  \A q \in Procs \ {p} :
                  ~(inode # 0 /\ fd[q] = inode /\ HoldsLock(q))]_vars


C25_RemoveVersion ==
  /\ [](\A S \in SUBSET InstallVersions : \A v \in S :
          LET others == SortedVersions(S \ {v})
              new == new_global(SortedVersions(S), v)
          IN  IF others = <<>> THEN new = None
              ELSE new = Some(others[Len(others)]))
  /\ [][\A c \in Cmds :
          (cPc[c] # "done" /\ cPc'[c] = "done"
             /\ cCmd'[c].name = "remove" /\ cRes'[c].ok)
            => LET v == cCmd'[c].version
                   found == cSnap'[c]
                   others == SortedVersions({w \in InstallVersions :
                                               versionDir[w]} \ {v})
               IN  IF Contains(found.installed_versions, v) /\ cCmd'[c].answer
                   THEN /\ ~versionDir'[v]
                        /\ installed_versions' = others
                        /\ IF found.current_version = Some(v)
                           THEN get_global_version(gFiles')
                                  = Ok(IF others = <<>> THEN None
                                       ELSE Some(others[Len(others)]))
                           ELSE gFiles' = gFiles
                   ELSE /\ installed_versions' = installed_versions
                        /\ gFiles' = gFiles]_vars

C25_Witness ==
  \E c \in Cmds :
    /\ cPc[c] = "done" /\ cRes[c].ok
    /\ cCmd[c] = Cmd("remove", V2, TRUE)
    /\ cSnap[c].installed_versions = <<V1, V2>>
    /\ cSnap[c].current_version = Some(V2)
    /\ installed_versions = <<V1>>
    /\ get_global_version(gFiles) = Ok(Some(V1))


\* C24: an install command takes its versions in order; a version that is
\* not installed and is in the catalog is installed, and when its install
\* has returned Ok it becomes the global version if no global version was
\* set when its turn began and otherwise the global version file is left as
\* it is; no step of install changes the global version file, and a global
\* version that is set is changed by no step of the command but the turn of
\* an installed version (the user is asked); a version that is neither
\* installed nor in the catalog changes nothing.
C24_InstallCommand ==
  [][\A c \in Cmds :
       (cPc[c] \in {"loop", "install"} /\ cCmd[c].name = "install")
         => LET found == cSnap'[c]
                v == cCmd'[c].version
                turn == cPc[c] = "loop" /\ cTodo'[c] # cTodo[c]
                back == cPc[c] = "install" /\ cPc'[c] # "install"
            IN  /\ turn
                     => /\ v = Head(cTodo[c])
                        /\ cTodo'[c] = Tail(cTodo[c])
                        /\ found.installed_versions = installed_versions
                        /\ found.current_version
                             = get_global_version(gFiles).detail
                        /\ versionDir' = versionDir
                        /\ ~Contains(found.installed_versions, v)
                             => /\ gFiles' = gFiles
                                /\ IF Contains(found.all_versions, v)
                                   THEN /\ cPc'[c] = "install"
                                        /\ pc'[cInv'[c]] = "fetch"
                                        /\ ver'[cInv'[c]] = v
                                   ELSE /\ cPc'[c] = "loop"
                                        /\ pc' = pc
                /\ (cPc[c] = "install" /\ ~back) => gFiles' = gFiles
                /\ (gFiles[global_version_path].exists
                      /\ ~(turn /\ Contains(found.installed_versions, v)))
                     => gFiles' = gFiles
                /\ back
                     => IF result[cInv[c]].ok
                        THEN /\ cPc'[c] = "loop"
                             /\ versionDir[v]
                             /\ IF found.current_version.some
                                THEN gFiles' = gFiles
                                ELSE get_global_version(gFiles')
                                       = Ok(Some(v))
                        ELSE /\ cPc'[c] = "done"
                             /\ cRes'[c] = result[cInv[c]]
                             /\ gFiles' = gFiles]_vars

C24_Witness ==
  \E c \in Cmds :
    /\ cCmd[c].name = "install" /\ cCmd[c].version = V1
    /\ cPc[c] = "done" /\ cRes[c].ok
    /\ cInv[c] # 0
    /\ Succeeded(cInv[c]) /\ ver[cInv[c]] = V1
    /\ cTodo[c] = <<>>
    /\ cSnap[c].installed_versions = <<V2>>
    /\ cSnap[c].current_version = Some(V2)
    /\ installed_versions = <<V1, V2>>
    /\ binary[V1] = File(GoodBytes)
    /\ get_global_version(gFiles) = Ok(Some(V2))


\* C22: when no command is in progress, after any sequence of commands run
\* one at a time without an I/O error, from an empty data directory (and
\* from any data directory whose global version is unset or installed), the
\* global version is unset or names a version that is installed.
C22_GlobalIsUnsetOrInstalled ==
  (\A c \in Cmds : cPc[c] \in {"idle", "done"})
    => LET global == get_global_version(gFiles)
       IN  /\ global.ok
           /\ global.detail.some => versionDir[global.detail.value]

C22_Witness ==
  \E c \in Cmds :
    /\ cPc[c] = "done" /\ cRes[c].ok
    /\ cCmd[c].name = "install" /\ cCmd[c].version = V2
    /\ cInv[c] # 0 /\ Succeeded(cInv[c]) /\ ver[cInv[c]] = V2
    /\ cSnap[c].installed_versions = <<>>
    /\ cSnap[c].current_version = None
    /\ installed_versions = <<V2>>
    /\ get_global_version(gFiles) = Ok(Some(V2))


\* C26: when two install commands have returned Ok, each having installed
\* its own version, different from the other's, the first of them with no
\* global version set at the start of its turn and the other with none or
\* with the version of the first, then both versions are installed and the
\* global version is one of the two.
C26_RacingInstallsSetOneOfBoth ==
  \A c, d \in Cmds :
    LET v1 == cCmd[c].version
        v2 == cCmd[d].version
    IN  (/\ c # d
         /\ cCmd[c].name = "install" /\ cPc[c] = "done" /\ cRes[c].ok
         /\ cCmd[d].name = "install" /\ cPc[d] = "done" /\ cRes[d].ok
         /\ v1 # v2
         /\ cInv[c] # 0 /\ Succeeded(cInv[c]) /\ ver[cInv[c]] = v1
         /\ cInv[d] # 0 /\ Succeeded(cInv[d]) /\ ver[cInv[d]] = v2
         /\ cSnap[c].current_version = None
         /\ cSnap[d].current_version \in {None, Some(v1)})
          => /\ versionDir[v1]
             /\ versionDir[v2]
             /\ get_global_version(gFiles) \in {Ok(Some(v1)), Ok(Some(v2))}

C26_Witness ==
  \E c, d \in Cmds :
    /\ c < d
    /\ cCmd[c] = Cmd("install", V1, FALSE) /\ cPc[c] = "done" /\ cRes[c].ok
    /\ cCmd[d] = Cmd("install", V2, FALSE) /\ cPc[d] = "done" /\ cRes[d].ok
    /\ Succeeded(cInv[c]) /\ ver[cInv[c]] = V1
    /\ Succeeded(cInv[d]) /\ ver[cInv[d]] = V2
    /\ cSnap[c].current_version = None
    /\ cSnap[d].current_version = None
    /\ versionDir[V1] /\ versionDir[V2]
    /\ get_global_version(gFiles) = Ok(Some(V1))

=============================================================================
